---- MODULE Spec2Model ----
(***************************************************************************)
(* Comment collection over the two paginated endpoints of the upstream     *)
(* comment API: commentThreads (threads, each with a few inline replies)   *)
(* and comments (replies of one parent).                                   *)
(*                                                                         *)
(* Four builds are modelled:                                               *)
(*   flat           commentThread.get_video_comments_with_conditional_-    *)
(*                  replies, with its helper get_remaining_replies         *)
(*   grouped_main   main.fetch_all_comments                                *)
(*   grouped_utils  utils/youtube_utils.fetch_all_comments                 *)
(*   top            utils/youtube_utils.fetch_top_comments                 *)
(*                                                                         *)
(* The upstream is fixed in Init and answers each request from the         *)
(* parameters the request carries (order, maxResults, parentId,            *)
(* pageToken); each request may also be answered with an error status.     *)
(*                                                                         *)
(* Of a comment resource the id and the text are modelled; the author and  *)
(* the publication date travel through the builds as the text does.  Every *)
(* thread item carries its topLevelComment.  The sentiment scores that     *)
(* filter_comment adds come from external libraries and are left out.      *)
(* The output of print is not part of the state.                           *)
(***************************************************************************)
EXTENDS Integers, Sequences, FiniteSets, TLC

\* ---------------------------------------------------------------- bounds
MaxThreads == 2
MaxReplies == 2
InlineCap == 1
ReplyPageLen == 1
MaxLimit == 2

\* ------------------------------------------------------ program constants
PageSizeCap == 100
StatusOK == 200
NoToken == 0

ErrorStatuses == {403, 500}

Min(a, b) == IF a < b THEN a ELSE b
Max(a, b) == IF a > b THEN a ELSE b

\* ------------------------------------------------------------- upstream
\* A comment resource as the API delivers it.  Every upstream comment has
\* its own id <<thread, n>> (n = 0: the top-level comment, n >= 1: its n-th
\* reply) and its own text, so that an occurrence in a corpus that no longer
\* carries the id can still be attributed.
RawComment(cid) == [id |-> cid, snippet |-> [textDisplay |-> cid]]

RawReplies(t, from, to) == [j \in 1..(to - from + 1) |-> RawComment(<<t, from + j - 1>>)]

\* What the upstream holds for one thread: R replies exist; the threads
\* endpoint inlines none of them or the first InlineCap of them, and declares
\* `total`.  The declared count may be stale either way (a reply deleted or
\* added since the count was cached); the builds read it only to compare it
\* with the number of inline replies, so the counts drawn are those around
\* that comparison: none, as many as inlined, one more than inlined.
DeclaredCounts(i) == {0, i, i + 1}

InlineCounts(R) == {0, Min(R, InlineCap)}

ThreadKinds ==
    UNION { UNION { { [R |-> R, inline |-> i, total |-> d] : d \in DeclaredCounts(i) }
                    : i \in InlineCounts(R) }
            : R \in 0..MaxReplies }

\* The threads of the video in time order, and the page length the upstream
\* uses for the threads listing.
Upstreams ==
    UNION { [ threads : [1..n -> ThreadKinds], page_len : 1..Max(n, 1) ]
            : n \in 0..MaxThreads }

VARIABLES
    upstream,         \* the video's comments as the API holds them
    pc,               \* position of the running build
    mode,             \* which build runs
    limit,            \* fetch_top_comments' limit
    params,           \* params / comment_params of the threads request
    next_page_token,  \* next_page_token / token of the grouped loops
    data,             \* the flat build's last threads response body
    idx,              \* the flat build's position in `for item in items`
    all_comments,     \* the accumulator of the build
    rparams,          \* params of get_remaining_replies
    all_replies,      \* all_replies of get_remaining_replies
    extra_replies,    \* what get_remaining_replies last returned to the flat build
    api_usage,        \* the module-level counters of commentThread.py
    requests,         \* history: every request issued, with its status
    result            \* what the build handed to its caller

vars == <<upstream, pc, mode, limit, params, next_page_token, data, idx,
          all_comments, rparams, all_replies, extra_replies, api_usage,
          requests, result>>

NThreads == Len(upstream.threads)

ThreadItem(t) ==
    [ snippet |-> [ topLevelComment |-> RawComment(<<t, 0>>),
                    totalReplyCount |-> upstream.threads[t].total ],
      replies |-> [ comments |-> RawReplies(t, 1, upstream.threads[t].inline) ] ]

Reverse(s) == [i \in 1..Len(s) |-> s[Len(s) + 1 - i]]

TimeListing == [t \in 1..NThreads |-> ThreadItem(t)]

\* The relevance listing differs from the time listing: it is its reverse.
Listing(order) == IF order = "relevance" THEN Reverse(TimeListing) ELSE TimeListing

\* One page of a listing: page tokens are offsets into the listing, the
\* first page is the one requested without a token.
PageOf(listing, size, token) ==
    LET first == IF token = NoToken THEN 1 ELSE token
        last == Min(Len(listing), first + size - 1)
    IN  [ items |-> SubSeq(listing, first, last),
          nextPageToken |-> IF last < Len(listing) THEN last + 1 ELSE NoToken ]

\* commentThreads.list
ListThreads(p) == PageOf(Listing(p.order), Min(upstream.page_len, p.maxResults), p.pageToken)

\* comments.list with parentId lists every reply of the parent, the inlined
\* ones included.
ReplyListing(parent) == RawReplies(parent[1], 1, upstream.threads[parent[1]].R)

\* comments.list
ListReplies(p) == PageOf(ReplyListing(p.parentId), Min(ReplyPageLen, p.maxResults), p.pageToken)

\* The structured error body the upstream sends with a non-success status.
ErrorBody(status) == IF status = 403 THEN "quotaExceeded" ELSE "backendError"

NoResult == [kind |-> "none"]
Returned(v) == [kind |-> "returned", value |-> v]
\* raise HTTPException(status_code=..., detail=...)
HTTPException(status_code, detail) ==
    [kind |-> "raised", status_code |-> status_code, detail |-> detail]

Statuses == {StatusOK} \cup ErrorStatuses

EmptyPage == [items |-> <<>>, nextPageToken |-> NoToken]

\* History entry of one request: the endpoint, the parameters sent, and the
\* response: its status, the page it carries on success, the error body it
\* carries otherwise.
Request(endpoint, order, parentId, p, status, page) ==
    [ endpoint |-> endpoint, order |-> order, parentId |-> parentId,
      maxResults |-> p.maxResults, pageToken |-> p.pageToken,
      status |-> status,
      body |-> IF status = StatusOK THEN page ELSE EmptyPage,
      error |-> IF status = StatusOK THEN "" ELSE ErrorBody(status) ]

NoParent == <<0, 0>>

\* --------------------------------------------------------------- Init
Init ==
    /\ upstream \in Upstreams
    /\ pc = "idle"
    /\ mode = "none"
    /\ limit = 0
    /\ params = [order |-> "default", maxResults |-> PageSizeCap, pageToken |-> NoToken]
    /\ next_page_token = NoToken
    /\ data = EmptyPage
    /\ idx = 1
    /\ all_comments = <<>>
    /\ rparams = [parentId |-> NoParent, maxResults |-> PageSizeCap, pageToken |-> NoToken]
    /\ all_replies = <<>>
    /\ extra_replies = <<>>
    /\ api_usage = [commentThreads_calls |-> 0, comments_calls |-> 0]
    /\ requests = <<>>
    /\ result = NoResult

\* ------------------------------------------------- the flat build
\* commentThread.py: the dictionary appended for a top-level comment
\* (is_reply = FALSE) or a reply (is_reply = TRUE); the id is not kept.
flat_comment(raw, is_reply) == [text |-> raw.snippet.textDisplay, is_reply |-> is_reply]

flat_top(raw) == flat_comment(raw, FALSE)
flat_reply(raw) == flat_comment(raw, TRUE)

\* `for reply_item in existing_replies: all_comments.append({...})`
flat_replies(comments) == [j \in 1..Len(comments) |-> flat_reply(comments[j])]

\* Mutant of needs_remaining_replies: `>=` for `>`.
needs_remaining_replies_geq(total_reply_count, existing_replies) ==
    total_reply_count >= Len(existing_replies)

\* `if total_reply_count > len(existing_replies)`
needs_remaining_replies(total_reply_count, existing_replies) ==
    total_reply_count > Len(existing_replies)

\* Mutant of has_next_page: the cursor is ignored.
has_next_page_never(token) == FALSE

\* `if next_page_token:`
has_next_page(token) == token # NoToken

\* What the flat build hands back when a threads request fails: `break`
\* leaves the loop and `return all_comments` runs.
threads_error_return(comments) == Returned(comments)

\* What get_remaining_replies hands back when a replies request fails:
\* `break` leaves the loop and `return all_replies` runs.
replies_error_return(replies) == replies

\* Mutant of thread_comments: the inline replies are appended before the
\* top-level comment.
thread_comments_replies_first(item) ==
    flat_replies(item.replies.comments) \o <<flat_top(item.snippet.topLevelComment)>>

\* The comments one thread item contributes before any remainder fetch.
thread_comments(item) ==
    <<flat_top(item.snippet.topLevelComment)>> \o flat_replies(item.replies.comments)

\* The replies one page of the replies endpoint contributes.
page_replies(page) == flat_replies(page.items)

\* Mutant of collect_replies: each page replaces what was collected.
collect_replies_last_page(replies, page) == page_replies(page)

\* `for item in data.get("items", []): ... all_replies.append(...)`
collect_replies(replies, page) == replies \o page_replies(page)

conditional_replies_start ==
    /\ pc = "idle"
    /\ mode' = "flat"
    /\ params' = [order |-> "time", maxResults |-> PageSizeCap, pageToken |-> NoToken]
    /\ all_comments' = <<>>
    /\ pc' = "threads_call"
    /\ UNCHANGED <<upstream, limit, next_page_token, data, idx, rparams, all_replies,
                   extra_replies, api_usage, requests, result>>

\* Mutant of count_call: the counter is set to one instead of incremented.
count_call_once(usage, endpoint_calls) == [usage EXCEPT ![endpoint_calls] = 1]

\* `api_usage["..._calls"] += 1`, executed before every request.
count_call(usage, endpoint_calls) == [usage EXCEPT ![endpoint_calls] = @ + 1]

\* One pass over the head of `while True`: count, request, status check.
conditional_replies_request ==
    /\ pc = "threads_call"
    /\ mode = "flat"
    /\ api_usage' = count_call(api_usage, "commentThreads_calls")
    /\ \E status \in Statuses :
          LET page == ListThreads(params) IN
          /\ requests' = Append(requests,
                 Request("commentThreads", params.order, NoParent, params, status, page))
          /\ IF status # StatusOK
                THEN /\ result' = threads_error_return(all_comments)
                     /\ pc' = "done"
                     /\ UNCHANGED <<data, idx>>
                ELSE /\ data' = page
                     /\ idx' = 1
                     /\ pc' = "items"
                     /\ UNCHANGED result
    /\ UNCHANGED <<upstream, mode, limit, params, next_page_token, all_comments, rparams,
                   all_replies, extra_replies>>

\* One pass over the body of `for item in items`, up to the call of
\* get_remaining_replies.
conditional_replies_item ==
    /\ pc = "items"
    /\ idx <= Len(data.items)
    /\ LET item == data.items[idx]
           total_reply_count == item.snippet.totalReplyCount
           parent_comment_id == item.snippet.topLevelComment.id
           existing_replies == item.replies.comments
       IN  /\ all_comments' = all_comments \o thread_comments(item)
           /\ IF needs_remaining_replies(total_reply_count, existing_replies)
                 THEN /\ rparams' = [parentId |-> parent_comment_id,
                                     maxResults |-> PageSizeCap, pageToken |-> NoToken]
                      /\ all_replies' = <<>>
                      /\ pc' = "replies_call"
                      /\ UNCHANGED idx
                 ELSE /\ idx' = idx + 1
                      /\ UNCHANGED <<rparams, all_replies, pc>>
    /\ UNCHANGED <<upstream, mode, limit, params, next_page_token, data, extra_replies,
                   api_usage, requests, result>>

\* One pass over `while True` of get_remaining_replies; when the loop ends
\* the function returns and the caller extends all_comments.
get_remaining_replies_request ==
    /\ pc = "replies_call"
    /\ api_usage' = count_call(api_usage, "comments_calls")
    /\ \E status \in Statuses :
          LET page == ListReplies(rparams)
              collected == collect_replies(all_replies, page)
          IN
          /\ requests' = Append(requests,
                 Request("comments", "none", rparams.parentId, rparams, status, page))
          /\ IF status # StatusOK
                THEN /\ extra_replies' = replies_error_return(all_replies)
                     /\ all_comments' = all_comments \o extra_replies'
                     /\ idx' = idx + 1
                     /\ pc' = "items"
                     /\ UNCHANGED <<rparams, all_replies>>
                ELSE IF has_next_page(page.nextPageToken)
                THEN /\ all_replies' = collected
                     /\ rparams' = [rparams EXCEPT !.pageToken = page.nextPageToken]
                     /\ UNCHANGED <<extra_replies, all_comments, idx, pc>>
                ELSE /\ all_replies' = collected
                     /\ extra_replies' = collected
                     /\ all_comments' = all_comments \o extra_replies'
                     /\ idx' = idx + 1
                     /\ pc' = "items"
                     /\ UNCHANGED rparams
    /\ UNCHANGED <<upstream, mode, limit, params, next_page_token, data, result>>

\* After the last item of a page: paginate or return.
conditional_replies_paginate ==
    /\ pc = "items"
    /\ idx > Len(data.items)
    /\ IF has_next_page(data.nextPageToken)
          THEN /\ params' = [params EXCEPT !.pageToken = data.nextPageToken]
               /\ pc' = "threads_call"
               /\ UNCHANGED result
          ELSE /\ result' = Returned(all_comments)
               /\ pc' = "done"
               /\ UNCHANGED params
    /\ UNCHANGED <<upstream, mode, limit, next_page_token, data, idx, all_comments,
                   rparams, all_replies, extra_replies, api_usage, requests>>

\* How many flat builds the process has run or is running: every build
\* opens with one threads request that carries no page token.
MaxBuilds == 2

builds_started ==
    Cardinality({i \in 1..Len(requests) :
                    /\ requests[i].endpoint = "commentThreads"
                    /\ requests[i].pageToken = NoToken})

\* The function is called again in the same process after the previous
\* call has returned: its locals are fresh, the module-level api_usage and
\* the history of requests are what the earlier calls left.
conditional_replies_again ==
    /\ pc = "done"
    /\ mode = "flat"
    /\ builds_started < MaxBuilds
    /\ params' = [order |-> "time", maxResults |-> PageSizeCap, pageToken |-> NoToken]
    /\ all_comments' = <<>>
    /\ data' = EmptyPage
    /\ idx' = 1
    /\ rparams' = [parentId |-> NoParent, maxResults |-> PageSizeCap, pageToken |-> NoToken]
    /\ all_replies' = <<>>
    /\ extra_replies' = <<>>
    /\ result' = NoResult
    /\ pc' = "threads_call"
    /\ UNCHANGED <<upstream, mode, limit, next_page_token, api_usage, requests>>

\* ------------------------------------------------ the grouped builds
\* filter_comment: the id and the text are kept (the sentiment scores are
\* computed from the text by an external library and not modelled).
filter_comment(comment) == [id |-> comment.id, text |-> comment.snippet.textDisplay]

\* `[filter_comment(r) for r in item.get("replies", {}).get("comments", [])]`
filter_comments(comments) == [j \in 1..Len(comments) |-> filter_comment(comments[j])]

\* Mutant of comment_group: the inline replies are left out.
comment_group_without_replies(item) ==
    [ comment |-> filter_comment(item.snippet.topLevelComment), replies |-> <<>> ]

\* The record appended for one thread item: the top-level comment and the
\* replies that came with the item.
comment_group(item) ==
    [ comment |-> filter_comment(item.snippet.topLevelComment),
      replies |-> filter_comments(item.replies.comments) ]

comment_groups(items) == [k \in 1..Len(items) |-> comment_group(items[k])]

page_groups(page) == comment_groups(page.items)

\* main.py: pageToken is set from next_page_token, or removed.
main_page_params(p, token) == [p EXCEPT !.pageToken = IF token # NoToken THEN token ELSE NoToken]

\* Mutant of utils_page_params: the cursor is not put into the parameters.
utils_page_params_without_cursor(p, token) == p

\* utils/youtube_utils.py: pageToken is set from token, never removed.
utils_page_params(p, token) == IF token # NoToken THEN [p EXCEPT !.pageToken = token] ELSE p

\* `raise HTTPException(status_code=resp.status_code, detail="Error fetching comments")`
comments_error(status, body) == HTTPException(status, "Error fetching comments")

\* `raise HTTPException(status_code=resp.status_code, detail="Error fetching top comments")`
top_comments_error(status, body) == HTTPException(status, "Error fetching top comments")

main_fetch_all_comments_start ==
    /\ pc = "idle"
    /\ mode' = "grouped_main"
    /\ params' = [order |-> "default", maxResults |-> PageSizeCap, pageToken |-> NoToken]
    /\ all_comments' = <<>>
    /\ next_page_token' = NoToken
    /\ pc' = "grouped_call"
    /\ UNCHANGED <<upstream, limit, data, idx, rparams, all_replies, extra_replies,
                   api_usage, requests, result>>

utils_fetch_all_comments_start ==
    /\ pc = "idle"
    /\ mode' = "grouped_utils"
    /\ params' = [order |-> "default", maxResults |-> PageSizeCap, pageToken |-> NoToken]
    /\ all_comments' = <<>>
    /\ next_page_token' = NoToken
    /\ pc' = "grouped_call"
    /\ UNCHANGED <<upstream, limit, data, idx, rparams, all_replies, extra_replies,
                   api_usage, requests, result>>

\* One iteration of `while True` of a grouped build, with the parameters
\* the iteration sends.
grouped_iteration(sent) ==
    /\ params' = sent
    /\ \E status \in Statuses :
          LET page == ListThreads(sent) IN
          /\ requests' = Append(requests,
                 Request("commentThreads", sent.order, NoParent, sent, status, page))
          /\ IF status # StatusOK
                THEN /\ result' = comments_error(status, ErrorBody(status))
                     /\ pc' = "done"
                     /\ UNCHANGED <<all_comments, next_page_token>>
                ELSE /\ all_comments' = all_comments \o page_groups(page)
                     /\ next_page_token' = page.nextPageToken
                     /\ IF has_next_page(page.nextPageToken)
                           THEN UNCHANGED <<pc, result>>
                           ELSE /\ result' = Returned(all_comments')
                                /\ pc' = "done"
    /\ UNCHANGED <<upstream, mode, limit, data, idx, rparams, all_replies, extra_replies,
                   api_usage>>

main_fetch_all_comments_page ==
    /\ pc = "grouped_call"
    /\ mode = "grouped_main"
    /\ grouped_iteration(main_page_params(params, next_page_token))

utils_fetch_all_comments_page ==
    /\ pc = "grouped_call"
    /\ mode = "grouped_utils"
    /\ grouped_iteration(utils_page_params(params, next_page_token))

\* ------------------------------------------------------ the top build
Limits == (1..MaxLimit) \cup {PageSizeCap + 1}

\* Mutant of top_max_results: the limit is sent uncapped.
top_max_results_uncapped(n) == n

\* `"maxResults": min(limit, 100)`
top_max_results(n) == Min(n, PageSizeCap)

\* `items[:limit]`
top_items(items, n) == SubSeq(items, 1, Min(n, Len(items)))

fetch_top_comments_start ==
    /\ pc = "idle"
    /\ \E n \in Limits :
          /\ limit' = n
          /\ params' = [order |-> "relevance", maxResults |-> top_max_results(n),
                        pageToken |-> NoToken]
    /\ mode' = "top"
    /\ pc' = "top_call"
    /\ UNCHANGED <<upstream, next_page_token, data, idx, all_comments, rparams,
                   all_replies, extra_replies, api_usage, requests, result>>

fetch_top_comments_request ==
    /\ pc = "top_call"
    /\ \E status \in Statuses :
          LET page == ListThreads(params)
              items == top_items(page.items, limit)
          IN
          /\ requests' = Append(requests,
                 Request("commentThreads", params.order, NoParent, params, status, page))
          /\ IF status # StatusOK
                THEN /\ result' = top_comments_error(status, ErrorBody(status))
                     /\ UNCHANGED all_comments
                ELSE /\ all_comments' = comment_groups(items)
                     /\ result' = Returned(all_comments')
    /\ pc' = "done"
    /\ UNCHANGED <<upstream, mode, limit, params, next_page_token, data, idx, rparams,
                   all_replies, extra_replies, api_usage>>

Next ==
    \/ conditional_replies_start
    \/ conditional_replies_request
    \/ conditional_replies_item
    \/ get_remaining_replies_request
    \/ conditional_replies_paginate
    \/ main_fetch_all_comments_start
    \/ main_fetch_all_comments_page
    \/ utils_fetch_all_comments_start
    \/ utils_fetch_all_comments_page
    \/ fetch_top_comments_start
    \/ fetch_top_comments_request

Spec == Init /\ [][Next]_vars

\* The flat build called any number of times (up to MaxBuilds) in one
\* process, one call after the other.
NextBuilds ==
    \/ conditional_replies_start
    \/ conditional_replies_request
    \/ conditional_replies_item
    \/ get_remaining_replies_request
    \/ conditional_replies_paginate
    \/ conditional_replies_again

\* The videos the repeated builds are run on: at most BuildThreads threads.
BuildThreads == 1

InitBuilds ==
    /\ Init
    /\ Len(upstream.threads) <= BuildThreads

SpecBuilds == InitBuilds /\ [][NextBuilds]_vars

\* ------------------------------------------------------------ history
Done == pc = "done"

IsThreadsRequest(r) == r.endpoint = "commentThreads"
IsRepliesRequest(r, parent) == r.endpoint = "comments" /\ r.parentId = parent

ThreadsRequestIdx == {i \in 1..Len(requests) : IsThreadsRequest(requests[i])}
RepliesRequestIdx(parent) == {i \in 1..Len(requests) : IsRepliesRequest(requests[i], parent)}

AllOK == \A i \in 1..Len(requests) : requests[i].status = StatusOK
ThreadsRequestFailed == \E i \in ThreadsRequestIdx : requests[i].status # StatusOK

\* The comments the caller of the build received.
CommentsHanded == IF result.kind = "returned" THEN result.value ELSE <<>>

\* The thread items the threads endpoint delivered so far, in delivery order.
RECURSIVE ThreadItemsUpTo(_)
ThreadItemsUpTo(n) ==
    IF n = 0 THEN <<>>
    ELSE ThreadItemsUpTo(n - 1) \o
         (IF IsThreadsRequest(requests[n]) THEN requests[n].body.items ELSE <<>>)

DeliveredItems == ThreadItemsUpTo(Len(requests))

\* The reply items the replies endpoint delivered so far for one parent.
RECURSIVE ReplyItemsUpTo(_, _)
ReplyItemsUpTo(parent, n) ==
    IF n = 0 THEN <<>>
    ELSE ReplyItemsUpTo(parent, n - 1) \o
         (IF IsRepliesRequest(requests[n], parent) THEN requests[n].body.items ELSE <<>>)

DeliveredReplies(parent) == ReplyItemsUpTo(parent, Len(requests))

\* How many delivered thread items the flat build has finished with.
NProcessed == Len(DeliveredItems) - (Len(data.items) - (idx - 1))

ParentOf(item) == item.snippet.topLevelComment.id
DeclaredTotal(item) == item.snippet.totalReplyCount
InlineOf(item) == item.replies.comments

\* ------------------------------------------------------------- claims

\* C1: if a request to the threads endpoint returned a non-success status,
\* the build hands no comments to its caller (nothing taken from the
\* earlier pages is returned).
C1_ErrorAbortsBuild ==
    (Done /\ ThreadsRequestFailed) => CommentsHanded = <<>>

\* C2: after a successful flat build no upstream comment occurs more than
\* once in the returned corpus (the replies endpoint lists every reply of
\* the parent, the inlined ones included).
C2_NoDuplicates ==
    (Done /\ mode = "flat" /\ AllOK) =>
        \A i, j \in 1..Len(CommentsHanded) :
            i # j => CommentsHanded[i].text # CommentsHanded[j].text

\* C3: for every thread item the flat build has processed, the replies
\* endpoint was asked for its parent id if and only if the declared
\* totalReplyCount exceeds the number of inline replies; the sequence was
\* then started exactly once (one request without a page token) and its
\* requests, all for that parent, follow one another; otherwise no request
\* to the replies endpoint names that parent.
C3_ThresholdTrigger ==
    mode = "flat" =>
        /\ \A k \in 1..NProcessed :
              LET item == DeliveredItems[k]
                  seq == RepliesRequestIdx(ParentOf(item))
              IN  IF DeclaredTotal(item) > Len(InlineOf(item))
                     THEN Cardinality({i \in seq : requests[i].pageToken = NoToken}) = 1
                     ELSE seq = {}
        /\ \A i \in 1..Len(requests) :
              requests[i].endpoint = "comments" =>
                 LET seq == RepliesRequestIdx(requests[i].parentId) IN
                 /\ Cardinality({j \in seq : requests[j].pageToken = NoToken}) = 1
                 /\ \A j \in seq : \A m \in Min(i, j)..Max(i, j) : m \in seq
                 /\ \E k \in 1..Len(DeliveredItems) :
                       ParentOf(DeliveredItems[k]) = requests[i].parentId

\* A finished flat build that processed a thread whose remainder fetch took
\* more than one request and a thread that needed none.
C3_Witness ==
    /\ Done /\ mode = "flat" /\ AllOK
    /\ \E k \in 1..NProcessed :
          /\ DeclaredTotal(DeliveredItems[k]) > Len(InlineOf(DeliveredItems[k]))
          /\ Cardinality(RepliesRequestIdx(ParentOf(DeliveredItems[k]))) >= 2
    /\ \E k \in 1..NProcessed :
          /\ DeclaredTotal(DeliveredItems[k]) <= Len(InlineOf(DeliveredItems[k]))
          /\ Len(InlineOf(DeliveredItems[k])) > 0

\* The corpus the order rules prescribe for the delivered pages: thread by
\* thread in delivery order, the top-level comment, then its inline replies,
\* then the replies the replies endpoint delivered for it, in that order.
AsTop(raw) == [text |-> raw.snippet.textDisplay, is_reply |-> FALSE]
AsReply(raw) == [text |-> raw.snippet.textDisplay, is_reply |-> TRUE]

RECURSIVE OrderedCorpus(_)
OrderedCorpus(n) ==
    IF n = 0 THEN <<>>
    ELSE LET item == DeliveredItems[n] IN
         OrderedCorpus(n - 1)
            \o <<AsTop(item.snippet.topLevelComment)>>
            \o [j \in 1..Len(InlineOf(item)) |-> AsReply(InlineOf(item)[j])]
            \o [j \in 1..Len(DeliveredReplies(ParentOf(item))) |->
                   AsReply(DeliveredReplies(ParentOf(item))[j])]

\* C4: a successful flat build returns the threads in the order of the
\* source pages, each top-level comment immediately followed by its replies,
\* the inline replies first and then the replies-endpoint replies in
\* delivery order.
C4_OrderPreserved ==
    (Done /\ mode = "flat" /\ AllOK) =>
        /\ result.kind = "returned"
        /\ result.value = OrderedCorpus(Len(DeliveredItems))

\* A successful flat build over two threads, one of them with an inline
\* reply and a remainder fetch of two pages.
C4_Witness ==
    /\ Done /\ mode = "flat" /\ AllOK
    /\ Len(DeliveredItems) >= 2
    /\ \E k \in 1..Len(DeliveredItems) :
          /\ Len(InlineOf(DeliveredItems[k])) >= 1
          /\ Cardinality(RepliesRequestIdx(ParentOf(DeliveredItems[k]))) >= 2

\* C5: when a request of get_remaining_replies returned a non-success
\* status, the replies of the earlier pages of that parent are discarded:
\* nothing is returned to the caller.
C5_PartialRepliesDiscarded ==
    (/\ requests # <<>>
     /\ requests[Len(requests)].endpoint = "comments"
     /\ requests[Len(requests)].status # StatusOK)
        => extra_replies = <<>>

Grouped == mode \in {"grouped_main", "grouped_utils"}
Paginating == mode = "flat" \/ Grouped

IdsOf(comments) == [j \in 1..Len(comments) |-> comments[j].id]

LastThreadsRequest ==
    requests[CHOOSE i \in ThreadsRequestIdx : \A j \in ThreadsRequestIdx : j <= i]

\* The pages the threads listing of the upstream consists of.
ThreadPages ==
    IF NThreads = 0 THEN 1
    ELSE (NThreads + upstream.page_len - 1) \div upstream.page_len

TopLevelCount ==
    IF mode = "flat"
       THEN Cardinality({k \in 1..Len(CommentsHanded) : ~CommentsHanded[k].is_reply})
       ELSE Len(CommentsHanded)

\* C7: in a paginating build every threads request but the last was answered
\* with a cursor; the build has ended after a successful threads response
\* only if that response carried no cursor, and then it returned normally
\* with every page requested once and every thread of every page in the
\* corpus; a listing without threads gives the empty corpus.
C7_PaginationTermination ==
    Paginating =>
        /\ \A i, j \in ThreadsRequestIdx :
              i < j => /\ requests[i].status = StatusOK
                       /\ requests[i].body.nextPageToken # NoToken
        /\ (Done /\ ~ThreadsRequestFailed) =>
              /\ LastThreadsRequest.body.nextPageToken = NoToken
              /\ result.kind = "returned"
              /\ Cardinality(ThreadsRequestIdx) = ThreadPages
              /\ TopLevelCount = NThreads
              /\ NThreads = 0 => result.value = <<>>

\* A paginating build that ended normally after two pages of threads.
C7_Witness ==
    /\ Done /\ Paginating /\ ~ThreadsRequestFailed
    /\ Cardinality(ThreadsRequestIdx) = 2
    /\ NThreads = 2

\* C8: when every request get_remaining_replies made for a parent succeeded,
\* it returned one comment per reply the endpoint holds for the parent, in
\* the endpoint's order, each tagged is_reply = TRUE.
C8_AllRepliesReturned ==
    (/\ mode = "flat"
     /\ pc # "replies_call"
     /\ rparams.parentId # NoParent
     /\ \A i \in RepliesRequestIdx(rparams.parentId) : requests[i].status = StatusOK)
        => LET t == rparams.parentId[1] IN
           extra_replies =
               [j \in 1..upstream.threads[t].R |-> [text |-> <<t, j>>, is_reply |-> TRUE]]

\* get_remaining_replies has returned after two successful pages.
C8_Witness ==
    /\ mode = "flat"
    /\ pc # "replies_call"
    /\ rparams.parentId # NoParent
    /\ \A i \in RepliesRequestIdx(rparams.parentId) : requests[i].status = StatusOK
    /\ Cardinality(RepliesRequestIdx(rparams.parentId)) >= 2
    /\ Len(extra_replies) >= 2

\* C9: fetch_top_comments issues one request, to the threads endpoint, with
\* order=relevance, a page size of at most 100 and no page token, and none
\* to the replies endpoint; it returns at most `limit` groups, the first
\* threads of that page in delivery order.
C9_TopSingleRequest ==
    mode = "top" =>
        /\ ~Done => requests = <<>>
        /\ Done =>
              /\ Len(requests) = 1
              /\ requests[1].endpoint = "commentThreads"
              /\ requests[1].order = "relevance"
              /\ requests[1].maxResults <= PageSizeCap
              /\ requests[1].pageToken = NoToken
              /\ requests[1].status = StatusOK =>
                    /\ result.kind = "returned"
                    /\ Len(result.value) <= limit
                    /\ Len(result.value) = Min(limit, Len(requests[1].body.items))
                    /\ \A k \in 1..Len(result.value) :
                          /\ result.value[k].comment.id = ParentOf(requests[1].body.items[k])
                          /\ result.value[k].comment.id = ParentOf(Listing("relevance")[k])

\* fetch_top_comments returned one group although the video has two threads.
C9_Witness ==
    /\ mode = "top" /\ Done
    /\ result.kind = "returned"
    /\ limit = 1
    /\ NThreads = 2
    /\ upstream.page_len = 2
    /\ Len(result.value) = 1

\* C10: the error a build surfaces for a failed threads request carries the
\* status code and the response body of the upstream, unchanged.
C10_ErrorCarriesStatusAndBody ==
    (Done /\ result.kind = "raised") =>
        /\ result.status_code = LastThreadsRequest.status
        /\ result.detail = LastThreadsRequest.error

\* The request that precedes request i in its loop: the threads request
\* before a threads request, the replies request for the same parent before
\* a replies request; 0 when request i is the first of its loop.
SameLoop(i, j) ==
    /\ requests[j].endpoint = requests[i].endpoint
    /\ requests[j].parentId = requests[i].parentId

PreviousInLoop(i) ==
    LET earlier == {j \in 1..(i - 1) : SameLoop(i, j)}
    IN  IF earlier = {} THEN 0
        ELSE CHOOSE j \in earlier : \A k \in earlier : k <= j

CurrentBuildStart ==
    LET opening == {i \in ThreadsRequestIdx : requests[i].pageToken = NoToken}
    IN  IF opening = {} THEN 1
        ELSE CHOOSE i \in opening : \A j \in opening : j <= i

CurrentBuildRequests(endpoint) ==
    {i \in CurrentBuildStart..Len(requests) : requests[i].endpoint = endpoint}

RequestsTo(endpoint) == {i \in 1..Len(requests) : requests[i].endpoint = endpoint}

\* C12: flat builds share no mutable state, so what a build leaves in
\* api_usage when it ends is what it leaves when it runs alone: the number
\* of requests that build itself made to each endpoint.
C12_BuildsShareNoState ==
    (Done /\ mode = "flat") =>
        /\ api_usage.commentThreads_calls =
              Cardinality(CurrentBuildRequests("commentThreads"))
        /\ api_usage.comments_calls = Cardinality(CurrentBuildRequests("comments"))

\* C14: at every point of any sequence of flat builds each counter of
\* api_usage equals the number of requests issued so far to its endpoint,
\* failed requests included (so no build decreases or resets a counter).
C14_CountersEqualRequestsIssued ==
    /\ api_usage.commentThreads_calls = Cardinality(RequestsTo("commentThreads"))
    /\ api_usage.comments_calls = Cardinality(RequestsTo("comments"))

\* A second build has ended, both endpoints were asked, over both builds,
\* and a request of the first build failed.
C14_Witness ==
    /\ Done /\ mode = "flat"
    /\ builds_started = 2
    /\ CurrentBuildRequests("comments") # {}
    /\ \E i \in 1..(CurrentBuildStart - 1) : requests[i].status # StatusOK
    /\ api_usage.commentThreads_calls >= 2
    /\ api_usage.comments_calls >= 1

\* The replies requests for one parent issued between requests j and i.
RepliesBetween(parent, j, i) ==
    {m \in (j + 1)..(i - 1) : IsRepliesRequest(requests[m], parent)}

LastOf(S) == CHOOSE m \in S : \A n \in S : n <= m

\* A sequence of replies requests has ended when its last request failed
\* or returned no cursor; it has reached the last page in the second case.
ReachedLastPage(m) ==
    /\ requests[m].status = StatusOK
    /\ requests[m].body.nextPageToken = NoToken

SequenceEnded(m) == requests[m].status # StatusOK \/ ReachedLastPage(m)

\* Between the threads requests j and i only replies of the items of page j
\* were requested.
OnlyRepliesOfPage(j, i) ==
    \A m \in (j + 1)..(i - 1) :
        /\ requests[m].endpoint = "comments"
        /\ \E k \in 1..Len(requests[j].body.items) :
              requests[m].parentId = ParentOf(requests[j].body.items[k])

NeedsReplies(item) == needs_remaining_replies(DeclaredTotal(item), InlineOf(item))

\* C13: in a flat build the request for the next page of threads is issued
\* only after every item of the page before it was processed, the replies
\* sequence of every item that needed one having reached its last page.
C13_NextPageAfterRepliesComplete ==
    mode = "flat" =>
        \A i \in ThreadsRequestIdx :
            LET j == PreviousInLoop(i) IN
            j # 0 =>
                /\ OnlyRepliesOfPage(j, i)
                /\ \A k \in 1..Len(requests[j].body.items) :
                      LET item == requests[j].body.items[k]
                          seq == RepliesBetween(ParentOf(item), j, i)
                      IN  NeedsReplies(item) =>
                              seq # {} /\ ReachedLastPage(LastOf(seq))

\* The same order with a replies sequence that a failed request ended
\* counted as over: this is the order the flat build keeps.
FlatRequestsSequential ==
    mode = "flat" =>
        \A i \in ThreadsRequestIdx :
            LET j == PreviousInLoop(i) IN
            j # 0 =>
                /\ OnlyRepliesOfPage(j, i)
                /\ \A k \in 1..Len(requests[j].body.items) :
                      LET item == requests[j].body.items[k]
                          seq == RepliesBetween(ParentOf(item), j, i)
                      IN  IF NeedsReplies(item)
                             THEN seq # {} /\ SequenceEnded(LastOf(seq))
                             ELSE seq = {}

====
